---------------------------- MODULE Spec2Model ----------------------------
(***************************************************************************)
(* A model of the BOM-to-CAD matcher: the STEP record and parameter        *)
(* parser (step_parser.py), the component extractor (step_parser.py) and   *)
(* the matching engine (matcher.py).                                       *)
(*                                                                         *)
(* Text is a sequence of one-character strings, so that upper-casing,      *)
(* trimming, substring search and the character scans of the parser are    *)
(* computed as the code computes them.  Scores are integers in thousandths *)
(* (1000 = 1.0): every score the code forms is k/100, k/100*0.7,           *)
(* k/100*0.6, 0.8, 1.0 or 0.0 with k an integer fuzzy ratio, and on those  *)
(* values IEEE-754 comparison against 0.95 / 0.8 / 0.6 agrees with the     *)
(* comparison of the thousandths.                                          *)
(***************************************************************************)
EXTENDS Integers, Sequences, FiniteSets, TLC

VARIABLES
    pc,          \* position of the running function
    bom_in,      \* matcher.py: match_components argument bom_df (raw rows)
    comps_in,    \* matcher.py: match_components argument step_components
    fuzz,        \* what fuzzywuzzy returns on the strings of this call
    bom_df,      \* matcher.py:9  rows after _preprocess_bom
    step_data,   \* matcher.py:12 components after _preprocess_step
    matches,     \* matcher.py:14 rows built by the loop
    result,      \* matcher.py:42 the returned frame
    param_str,   \* step_parser.py:100 _parse_parameters argument
    pos,         \* characters of param_str the loop at line 112 has consumed
    params,      \* step_parser.py:107
    current,     \* step_parser.py:108
    depth,       \* step_parser.py:109
    in_quotes,   \* step_parser.py:110
    parsed,      \* what _parse_parameters returns
    content,     \* step_parser.py:30 the normalized text of the file
    entities,    \* step_parser.py:32
    step_entities, \* step_parser.py:168 extract_step_components argument step_data
    ent_i,       \* entities the running pass of extract_step_components has visited
    components   \* step_parser.py:170

mvars == <<bom_in, comps_in, fuzz, bom_df, step_data, matches, result>>
pvars == <<param_str, pos, params, current, depth, in_quotes, parsed>>
rvars == <<content, entities>>
evars == <<step_entities, ent_i, components>>
vars == <<pc, mvars, pvars, rvars, evars>>

\* the variables of a function that is not running
MatchIdle ==
    /\ bom_in = <<>> /\ comps_in = <<>> /\ fuzz = <<>> /\ bom_df = <<>>
    /\ step_data = <<>> /\ matches = <<>> /\ result = <<>>
ParamsIdle ==
    /\ param_str = <<>> /\ pos = 0 /\ params = <<>> /\ current = <<>>
    /\ depth = 0 /\ in_quotes = FALSE /\ parsed = <<>>
RecordIdle == content = <<>> /\ entities = <<>>
ExtractIdle == step_entities = <<>> /\ ent_i = 0 /\ components = <<>>

(***************************************************************************)
(* Text helpers (Python str methods).                                      *)
(***************************************************************************)
Range(s) == {s[i] : i \in 1..Len(s)}

SetMin(S) == CHOOSE x \in S : \A y \in S : x <= y
SetMax(S) == CHOOSE x \in S : \A y \in S : x >= y

LowerLetters == <<"a", "b", "c", "d", "e", "f", "g", "h", "i", "j", "k", "l", "m",
                  "n", "o", "p", "q", "r", "s", "t", "u", "v", "w", "x", "y", "z">>
UpperLetters == <<"A", "B", "C", "D", "E", "F", "G", "H", "I", "J", "K", "L", "M",
                  "N", "O", "P", "Q", "R", "S", "T", "U", "V", "W", "X", "Y", "Z">>
Digits == {"0", "1", "2", "3", "4", "5", "6", "7", "8", "9"}

\* str.upper() on one ASCII character
UpperChar(c) ==
    IF \E i \in 1..Len(LowerLetters) : LowerLetters[i] = c
    THEN UpperLetters[CHOOSE i \in 1..Len(LowerLetters) : LowerLetters[i] = c]
    ELSE c

PyUpper(s) == [i \in 1..Len(s) |-> UpperChar(s[i])]

IsSpace(c) == c \in {" ", "\n", "\t"}

\* str.strip(chars): drop leading and trailing characters of the set
StripChars(s, cs) ==
    LET keep == {i \in 1..Len(s) : s[i] \notin cs}
    IN IF keep = {} THEN <<>> ELSE SubSeq(s, SetMin(keep), SetMax(keep))

\* str.strip()
PyStrip(s) == StripChars(s, {" ", "\n", "\t"})

\* sub in s
Contains(sub, s) ==
    \E i \in 0..(Len(s) - Len(sub)) : SubSeq(s, i + 1, i + Len(sub)) = sub

\* sequences over S of length at most n
SeqUpTo(S, n) == UNION {[1..k -> S] : k \in 0..n}

(***************************************************************************)
(* step_parser.py: the parameter parser.                                   *)
(***************************************************************************)
StartsWith(s, pre) == Len(s) >= Len(pre) /\ SubSeq(s, 1, Len(pre)) = pre
EndsWith(s, suf) ==
    Len(s) >= Len(suf) /\ SubSeq(s, Len(s) - Len(suf) + 1, Len(s)) = suf

\* str.replace(old, ""): every occurrence of old, left to right, removed
RECURSIVE PyRemoveAll(_, _)
PyRemoveAll(s, old) ==
    IF Len(s) < Len(old) \/ old = <<>> THEN s
    ELSE IF SubSeq(s, 1, Len(old)) = old
         THEN PyRemoveAll(SubSeq(s, Len(old) + 1, Len(s)), old)
         ELSE <<s[1]>> \o PyRemoveAll(Tail(s), old)

\* digits with single underscores between them
DigitRun(s) ==
    /\ s # <<>>
    /\ s[1] \in Digits /\ s[Len(s)] \in Digits
    /\ \A i \in 1..Len(s) : s[i] \in Digits \cup {"_"}
    /\ \A i \in 1..(Len(s) - 1) : ~(s[i] = "_" /\ s[i + 1] = "_")

Unsigned(s) == IF s # <<>> /\ s[1] \in {"+", "-"} THEN Tail(s) ELSE s

\* int(s) succeeds (s already stripped)
IsIntLiteral(s) == DigitRun(Unsigned(s))

\* float(s) succeeds, for s holding a '.' (step_parser.py:159-160)
IsFloatLiteral(s) ==
    LET u == Unsigned(s)
        es == {i \in 1..Len(u) : u[i] \in {"e", "E"}}
        mant == IF es = {} THEN u ELSE SubSeq(u, 1, SetMin(es) - 1)
        expo == IF es = {} THEN <<>> ELSE SubSeq(u, SetMin(es) + 1, Len(u))
        dots == {i \in 1..Len(mant) : mant[i] = "."}
        whole == IF dots = {} THEN mant ELSE SubSeq(mant, 1, SetMin(dots) - 1)
        frac == IF dots = {} THEN <<>> ELSE SubSeq(mant, SetMin(dots) + 1, Len(mant))
    IN /\ Cardinality(dots) <= 1
       /\ whole = <<>> \/ DigitRun(whole)
       /\ frac = <<>> \/ DigitRun(frac)
       /\ whole # <<>> \/ frac # <<>>
       /\ es = {} \/ DigitRun(Unsigned(expo))

\* One parameter value.  String, Raw and Reference are Python str (a
\* Reference is the str "REF:" followed by text); Boolean, Integer and Float
\* are bool, int and float, text being the token they were read from.
Value(tag, text) == [tag |-> tag, text |-> text]

\* step_parser.py:139-166
_clean_param(param) ==
    LET p == PyStrip(param)
    IN IF \/ StartsWith(p, <<"'">>) /\ EndsWith(p, <<"'">>)
          \/ StartsWith(p, <<"\"">>) /\ EndsWith(p, <<"\"">>)
       THEN Value("String", SubSeq(p, 2, Len(p) - 1))
       ELSE IF StartsWith(p, <<"#">>)
       THEN Value("Reference", PyStrip(Tail(p)))
       ELSE IF PyUpper(p) \in {<<".", "T", ".">>, <<"T", "R", "U", "E">>, <<"T">>}
       THEN Value("Boolean", <<"True">>)
       ELSE IF PyUpper(p) \in {<<".", "F", ".">>, <<"F", "A", "L", "S", "E">>, <<"F">>}
       THEN Value("Boolean", <<"False">>)
       ELSE IF Contains(<<".">>, p) /\ IsFloatLiteral(p)
       THEN Value("Float", p)
       ELSE IF ~Contains(<<".">>, p) /\ IsIntLiteral(p)
       THEN Value("Integer", p)
       ELSE Value("Raw", p)

\* mutant of ScanChar: a comma outside quotes splits whatever the depth
ScanCharAnyDepth(st, char) ==
    LET q == IF char = "'" THEN ~st.in_quotes ELSE st.in_quotes
    IN IF ~q /\ char \in {"(", "["}
       THEN [st EXCEPT !.in_quotes = q, !.depth = @ + 1,
                       !.current = Append(@, char)]
       ELSE IF ~q /\ char \in {")", "]"}
       THEN [st EXCEPT !.in_quotes = q, !.depth = @ - 1,
                       !.current = Append(@, char)]
       ELSE IF ~q /\ char = ","
       THEN [st EXCEPT !.in_quotes = q,
                       !.params = Append(@, PyStrip(st.current)),
                       !.current = <<>>]
       ELSE [st EXCEPT !.in_quotes = q, !.current = Append(@, char)]

\* step_parser.py:112-128: one iteration of the scan, on the loop's
\* variables params, current, depth, in_quotes
ScanChar(st, char) ==
    LET q == IF char = "'" THEN ~st.in_quotes ELSE st.in_quotes
    IN IF ~q /\ char \in {"(", "["}
       THEN [st EXCEPT !.in_quotes = q, !.depth = @ + 1,
                       !.current = Append(@, char)]
       ELSE IF ~q /\ char \in {")", "]"}
       THEN [st EXCEPT !.in_quotes = q, !.depth = @ - 1,
                       !.current = Append(@, char)]
       ELSE IF ~q /\ char = "," /\ st.depth = 0
       THEN [st EXCEPT !.in_quotes = q,
                       !.params = Append(@, PyStrip(st.current)),
                       !.current = <<>>]
       ELSE [st EXCEPT !.in_quotes = q, !.current = Append(@, char)]

\* step_parser.py:107-110
ScanStart == [params |-> <<>>, current |-> <<>>, depth |-> 0, in_quotes |-> FALSE]

\* step_parser.py:130-133
ScanFinish(st) ==
    LET ps == IF PyStrip(st.current) # <<>>
              THEN Append(st.params, PyStrip(st.current))
              ELSE st.params
    IN [i \in 1..Len(ps) |-> _clean_param(ps[i])]

RECURSIVE ScanAll(_, _, _)
ScanAll(st, s, i) ==
    IF i > Len(s) THEN st ELSE ScanAll(ScanChar(st, s[i]), s, i + 1)

\* step_parser.py:100-137 as a function (the scan only appends and counts,
\* so the except branch at line 135 is not taken)
_parse_parameters(s) ==
    IF PyStrip(s) = <<>> THEN <<>> ELSE ScanFinish(ScanAll(ScanStart, s, 1))

(***************************************************************************)
(* step_parser.py: records and entities.                                   *)
(***************************************************************************)
Letters == Range(LowerLetters) \cup Range(UpperLetters)
Whitespace == {c \in {" ", "\n", "\t"} : IsSpace(c)}

\* the last index of the longest run of characters of S starting at i
\* (i - 1 when there is none): a greedy \d+ or \s*
RunEnd(t, i, S) ==
    LET idx == {j \in i..Len(t) : \A k \in i..j : t[k] \in S}
    IN IF idx = {} THEN i - 1 ELSE SetMax(idx)

\* no Entity (Python None)
NoneEntity == [id |-> <<>>, type |-> <<>>, parameters |-> <<>>, raw |-> <<>>]

\* step_parser.py:83: re.search(r'\((.*)\)', DOTALL), the text between the
\* first '(' and the last ')' after it
ParamGroup(entity_def) ==
    LET opens == {i \in 1..Len(entity_def) : entity_def[i] = "("}
        closes == {i \in 1..Len(entity_def) : entity_def[i] = ")"}
    IN IF opens # {} /\ \E j \in closes : j > SetMin(opens)
       THEN [found |-> TRUE,
             text |-> SubSeq(entity_def, SetMin(opens) + 1, SetMax(closes) - 1)]
       ELSE [found |-> FALSE, text |-> <<>>]

\* step_parser.py:68-98
_parse_entity(entity_id, entity_def) ==
    LET type_end == RunEnd(entity_def, 2, Letters \cup Digits \cup {"_"})
        group == ParamGroup(entity_def)
    IN IF entity_def = <<>> THEN NoneEntity
       ELSE IF entity_def[1] \notin Letters \cup {"_"} THEN NoneEntity
       ELSE [id |-> entity_id,
             type |-> PyUpper(SubSeq(entity_def, 1, type_end)),
             parameters |-> IF group.found THEN _parse_parameters(group.text)
                            ELSE <<>>,
             raw |-> <<"#">> \o entity_id \o <<" ", "=", " ">> \o entity_def
                       \o <<";">>]

\* A match of '#' digits, whitespace, '=', whitespace, text up to the next
\* ';' starting at i: both patterns of step_parser.py:35-38 match this same
\* stretch; the first captures id and definition, the second the whole.
RecordAt(t, i) ==
    LET d == RunEnd(t, i + 1, Digits)
        w1 == RunEnd(t, d + 1, Whitespace)
        w2 == RunEnd(t, w1 + 2, Whitespace)
        semis == {j \in (w2 + 1)..Len(t) : t[j] = ";"}
    IN IF /\ t[i] = "#" /\ d > i
          /\ w1 < Len(t) /\ t[w1 + 1] = "="
          /\ semis # {}
       THEN [found |-> TRUE,
             id |-> SubSeq(t, i + 1, d),
             def |-> SubSeq(t, w2 + 1, SetMin(semis) - 1),
             full |-> SubSeq(t, i, SetMin(semis)),
             last |-> SetMin(semis)]
       ELSE [found |-> FALSE, id |-> <<>>, def |-> <<>>, full |-> <<>>, last |-> i]

\* step_parser.py:41: re.finditer, the matches from left to right, each
\* search resuming behind the previous match
RECURSIVE FindRecords(_, _)
FindRecords(t, i) ==
    IF i > Len(t) THEN <<>>
    ELSE LET m == RecordAt(t, i)
         IN IF m.found THEN <<m>> \o FindRecords(t, m.last + 1)
            ELSE FindRecords(t, i + 1)

\* step_parser.py:47-49: re.search(r'#(\d+)', full_match)
FirstId(full) ==
    LET at == {i \in 1..(Len(full) - 1) : full[i] = "#" /\ full[i + 1] \in Digits}
    IN SubSeq(full, SetMin(at) + 1, RunEnd(full, SetMin(at) + 1, Digits))

\* step_parser.py:43-44, 54
StandardEntity(m) == _parse_entity(PyStrip(m.id), PyStrip(m.def))

\* step_parser.py:46-50, 54 (a match always starts with '#' and digits, so
\* the search of line 47 succeeds)
AlternativeEntity(m) ==
    LET entity_id == FirstId(m.full)
        entity_def == StripChars(
            PyRemoveAll(m.full, <<"#">> \o entity_id \o <<" ", "=">>),
            {" ", ";"})
    IN _parse_entity(PyStrip(entity_id), PyStrip(entity_def))

\* step_parser.py:41-56: one pattern's pass over the text
PatternEntities(pattern, t) ==
    LET ms == FindRecords(t, 1)
        es == [k \in 1..Len(ms) |->
                 IF pattern = "standard" THEN StandardEntity(ms[k])
                 ELSE AlternativeEntity(ms[k])]
    IN SelectSeq(es, LAMBDA e : e # NoneEntity)

(***************************************************************************)
(* step_parser.py: the component extractor.                                *)
(***************************************************************************)
\* isinstance(param, str)
IsStr(v) == v.tag \in {"String", "Raw", "Reference"}

\* the Python str behind a str-typed value
PyText(v) ==
    IF v.tag = "Reference" THEN <<"R", "E", "F", ":">> \o v.text ELSE v.text

\* what a pattern's '$' leaves to match: the text, less one final newline
BeforeDollar(t) ==
    {t} \cup (IF t # <<>> /\ t[Len(t)] = "\n" THEN {SubSeq(t, 1, Len(t) - 1)} ELSE {})

MinPartNumberLen == 4

\* step_parser.py:228-244
_looks_like_part_number(t) ==
    /\ Len(t) >= MinPartNumberLen
    /\ \/ \E b \in BeforeDollar(t) :
            /\ b # <<>>
            /\ \A i \in 1..Len(b) :
                 b[i] \in Range(UpperLetters) \cup Digits \cup {"-", "_", "/", "."}
       \/ \E b \in BeforeDollar(t) :
            /\ b # <<>>
            /\ \A i \in 1..(Len(b) - 1) : b[i] \in Digits \cup {"-"}
            /\ \/ b[Len(b)] \in Digits \cup {"-"}
               \/ Len(b) >= 2 /\ b[Len(b)] \in Range(UpperLetters)
       \/ LET r == RunEnd(t, 1, Range(UpperLetters))
          IN r >= 2 /\ r < Len(t) /\ t[r + 1] \in Digits

MinDescriptionLen == 10
MinAlphaCount == 5

\* step_parser.py:246-255
_looks_like_description(t) ==
    /\ Len(t) >= MinDescriptionLen
    /\ \E i \in 1..Len(t) : t[i] = " "
    /\ Cardinality({i \in 1..Len(t) : t[i] \in Letters}) > MinAlphaCount

\* step_parser.py:195: the parameters the scan looks at
Scanned(v) ==
    IsStr(v) /\ PyText(v) # <<>> /\ ~StartsWith(PyText(v), <<"R", "E", "F", ":">>)

\* mutant of ClassifyParam: the description test is made whatever the
\* part-number test said
ClassifyParamBoth(acc, v) ==
    IF ~Scanned(v) THEN acc
    ELSE [part_number |-> IF _looks_like_part_number(PyText(v))
                          THEN PyText(v) ELSE acc.part_number,
          description |-> IF _looks_like_description(PyText(v))
                          THEN PyText(v) ELSE acc.description]

\* step_parser.py:195-201: the loop body, on part_number and description
ClassifyParam(acc, v) ==
    IF ~Scanned(v) THEN acc
    ELSE IF _looks_like_part_number(PyText(v))
    THEN [acc EXCEPT !.part_number = PyText(v)]
    ELSE IF _looks_like_description(PyText(v))
    THEN [acc EXCEPT !.description = PyText(v)]
    ELSE acc

RECURSIVE ClassifyAll(_, _, _)
ClassifyAll(acc, ps, i) ==
    IF i > Len(ps) THEN acc ELSE ClassifyAll(ClassifyParam(acc, ps[i]), ps, i + 1)

\* no Component (Python None)
NoneComponent == [id |-> <<>>, type |-> <<>>]

\* step_parser.py:188-211
_extract_from_entity(entity) ==
    LET acc == ClassifyAll([part_number |-> <<>>, description |-> <<>>],
                           entity.parameters, 1)
    IN IF acc.part_number # <<>> \/ acc.description # <<>>
       THEN [id |-> entity.id, type |-> entity.type,
             part_number |-> acc.part_number, description |-> acc.description]
       ELSE NoneComponent

BasicMinLen == 3
TruncateLen == 50
FallbackLimit == 50

\* step_parser.py:213-226
_create_basic_component(entity) ==
    LET usable == {i \in 1..Len(entity.parameters) :
                     LET v == entity.parameters[i]
                     IN /\ IsStr(v)
                        /\ Len(PyText(v)) > BasicMinLen
                        /\ ~StartsWith(PyText(v), <<"R", "E", "F", ":">>)}
    IN IF usable = {} THEN NoneComponent
       ELSE LET t == PyText(entity.parameters[SetMin(usable)])
            IN [id |-> entity.id, type |-> entity.type,
                part_number |-> SubSeq(t, 1, IF Len(t) < TruncateLen THEN Len(t)
                                             ELSE TruncateLen),
                description |-> entity.type \o <<" ", "c", "o", "m", "p", "o",
                                                 "n", "e", "n", "t">>,
                footprint |-> <<>>,
                context |-> <<>>]

(***************************************************************************)
(* matcher.py                                                              *)
(***************************************************************************)
\* Python None in a column of text
NoneValue == <<"None">>

\* mutant of Normalize: the .strip() forgotten
NormalizeNoStrip(s) == PyUpper(s)

\* matcher.py:55-56,68-69: .astype(str).str.upper().str.strip() on a column,
\* str(...).upper().strip() on a component field
Normalize(s) == PyStrip(PyUpper(s))

_preprocess_bom(df) ==
    LET clean == [i \in 1..Len(df) |->
                    [PartNumber  |-> Normalize(df[i].PartNumber),
                     Description |-> Normalize(df[i].Description)]]
        NonEmpty(r) == r.PartNumber # <<>> \/ r.Description # <<>>
    IN SelectSeq(clean, NonEmpty)

_preprocess_step(step_components) ==
    [i \in 1..Len(step_components) |->
        [part_number |-> Normalize(step_components[i].part_number),
         description |-> Normalize(step_components[i].description)]]

\* fuzzywuzzy is an external library: each of its three ratios is an integer
\* in 0..100 and a function of its two strings.  These values put a score
\* on, under and over each classification threshold.
FuzzValues == {0, 60, 80, 95, 100}

\* matcher.py:84-86: fuzz.ratio is called on two non-empty part numbers that
\* are not equal (equal ones have returned at line 81)
RatioArgs(rows, comps) ==
    {a \in {<<r.PartNumber, c.part_number>> : r \in Range(rows), c \in Range(comps)} :
        a[1] # <<>> /\ a[2] # <<>> /\ a[1] # a[2]}

\* matcher.py:96-105: fuzz.partial_ratio and fuzz.token_set_ratio are called
\* on two non-empty descriptions
DescArgs(rows, comps) ==
    {a \in {<<r.Description, c.description>> : r \in Range(rows), c \in Range(comps)} :
        a[1] # <<>> /\ a[2] # <<>>}

\* the library's answers on the strings of one call of match_components
FuzzOracles(rows, comps) ==
    [ratio           : [RatioArgs(rows, comps) -> FuzzValues],
     partial_ratio   : [DescArgs(rows, comps) -> FuzzValues],
     token_set_ratio : [DescArgs(rows, comps) -> FuzzValues]]

\* mutant of CandidateScores: rule 3 (part number inside the description)
\* left out
CandidateScoresNoContains(bom_row, step_comp) ==
    LET pn    == bom_row.PartNumber
        desc  == bom_row.Description
        cpn   == step_comp.part_number
        cdesc == step_comp.description
        r2 == IF pn # <<>> /\ cpn # <<>>
              THEN <<fuzz.ratio[<<pn, cpn>>] * 10>> ELSE <<>>
        r4 == IF desc # <<>> /\ cdesc # <<>>
              THEN <<fuzz.partial_ratio[<<desc, cdesc>>] * 7>> ELSE <<>>
        r5 == IF desc # <<>> /\ cdesc # <<>>
              THEN <<fuzz.token_set_ratio[<<desc, cdesc>>] * 6>> ELSE <<>>
    IN r2 \o r4 \o r5

\* matcher.py:83-107: the candidate list, in the order the code appends
CandidateScores(bom_row, step_comp) ==
    LET pn    == bom_row.PartNumber
        desc  == bom_row.Description
        cpn   == step_comp.part_number
        cdesc == step_comp.description
        r2 == IF pn # <<>> /\ cpn # <<>>
              THEN <<fuzz.ratio[<<pn, cpn>>] * 10>> ELSE <<>>
        r3 == IF pn # <<>> /\ cdesc # <<>> /\ Contains(pn, cdesc)
              THEN <<800>> ELSE <<>>
        r4 == IF desc # <<>> /\ cdesc # <<>>
              THEN <<fuzz.partial_ratio[<<desc, cdesc>>] * 7>> ELSE <<>>
        r5 == IF desc # <<>> /\ cdesc # <<>>
              THEN <<fuzz.token_set_ratio[<<desc, cdesc>>] * 6>> ELSE <<>>
    IN r2 \o r3 \o r4 \o r5

\* matcher.py:73-112 (fuzz.* on two str never raises, so the except
\* branches are not taken)
_calculate_enhanced_score(bom_row, step_comp) ==
    IF /\ bom_row.PartNumber # <<>>
       /\ step_comp.part_number # <<>>
       /\ bom_row.PartNumber = step_comp.part_number
    THEN 1000
    ELSE LET scores == CandidateScores(bom_row, step_comp)
         IN IF scores # <<>> THEN SetMax(Range(scores)) ELSE 0

\* matcher.py:114-128
_get_match_type(score) ==
    IF score >= 950 THEN "Exact Match"
    ELSE IF score >= 800 THEN "Strong Match"
    ELSE IF score >= 600 THEN "Partial Match"
    ELSE "Weak/No Match"

\* mutant of Improves: a later component of equal score replaces the best
ImprovesOrTies(score, best_score) == score >= best_score

\* matcher.py:24: the test that replaces the best match
Improves(score, best_score) == score > best_score

\* matcher.py:17-26: the inner loop from component j on.  best_match is the
\* position in step_data of the component held, 0 for None.
RECURSIVE ScanComponents(_, _, _, _, _)
ScanComponents(bom_row, comps, j, best_score, best_match) ==
    IF j > Len(comps)
    THEN [best_score |-> best_score, best_match |-> best_match]
    ELSE LET score == _calculate_enhanced_score(bom_row, comps[j])
         IN IF Improves(score, best_score)
            THEN ScanComponents(bom_row, comps, j + 1, score, j)
            ELSE ScanComponents(bom_row, comps, j + 1, best_score, best_match)

\* a float score, and the text f"{score:.0%}" (val is the printed integer)
Float(v) == [kind |-> "float", val |-> v]
PercentText(v) == [kind |-> "str", val |-> v]

\* matcher.py:17-39: one iteration of the outer loop
MatchOneRow(bom_row, comps) ==
    LET b == ScanComponents(bom_row, comps, 1, 0, 0)
        found == b.best_match # 0
    IN [BOM_PartNumber   |-> bom_row.PartNumber,
        BOM_Description  |-> bom_row.Description,
        STEP_PartNumber  |-> IF found THEN comps[b.best_match].part_number
                             ELSE NoneValue,
        STEP_Description |-> IF found THEN comps[b.best_match].description
                             ELSE NoneValue,
        Match_Score      |-> IF found THEN Float(b.best_score) ELSE Float(0),
        Match_Type       |-> IF found THEN _get_match_type(b.best_score)
                             ELSE "No Match"]

\* matcher.py:134-137: drop_duplicates(subset=[BOM_PartNumber,
\* BOM_Description], keep='first'): the positions kept
DropDuplicates(df) ==
    {i \in 1..Len(df) :
        \A j \in 1..(i - 1) :
            \/ df[j].BOM_PartNumber # df[i].BOM_PartNumber
            \/ df[j].BOM_Description # df[i].BOM_Description}

\* matcher.py:147: sort_values('Match_Score', ascending=False) with the
\* default kind='quicksort', which pandas documents as not stable: every
\* arrangement of the kept positions with non-increasing score.
SortOrders(df, kept) ==
    LET n == Cardinality(kept)
    IN {o \in [1..n -> kept] :
          /\ \A a, b \in 1..n : a # b => o[a] # o[b]
          /\ \A a \in 1..(n - 1) :
                df[o[a]].Match_Score.val >= df[o[a + 1]].Match_Score.val}

\* matcher.py:150-156: f"{float(score):.0%}".  Round-half-even of the
\* thousandths agrees with CPython on every score the FuzzValues give
\* (0.665 prints as 66%).
format_score(score) ==
    LET q == score.val \div 10
        r == score.val % 10
    IN PercentText(IF r > 5 \/ (r = 5 /\ q % 2 = 1) THEN q + 1 ELSE q)

\* matcher.py:130-164: the frame returned for one sort order; index is the
\* frame's index label, the position of the row in matches
_post_process_matches(df, order) ==
    [k \in 1..Len(order) |->
        [index            |-> order[k],
         BOM_PartNumber   |-> df[order[k]].BOM_PartNumber,
         BOM_Description  |-> df[order[k]].BOM_Description,
         STEP_PartNumber  |-> df[order[k]].STEP_PartNumber,
         STEP_Description |-> df[order[k]].STEP_Description,
         Match_Score      |-> format_score(df[order[k]].Match_Score),
         Match_Type       |-> df[order[k]].Match_Type]]

(***************************************************************************)
(* match_components as a state machine.                                    *)
(***************************************************************************)
\* bounds of the matcher's inputs
MaxItems == 3

RawBomPartNumbers == {<<>>, <<"a", " ">>, <<"A">>}
RawBomDescriptions == {<<>>, <<" ", "x">>}
RawStepPartNumbers == {<<>>, <<"A">>, <<"a", "b">>}
RawStepDescriptions == {<<>>, <<"x", " ", "a">>}

RawRows == [PartNumber : RawBomPartNumbers, Description : RawBomDescriptions]
RawComponents == [part_number : RawStepPartNumbers,
                  description : RawStepDescriptions]

MatchInit ==
    /\ pc = "m_call"
    /\ bom_in \in SeqUpTo(RawRows, MaxItems)
    /\ comps_in \in SeqUpTo(RawComponents, MaxItems - Len(bom_in))
    /\ fuzz \in FuzzOracles(_preprocess_bom(bom_in), _preprocess_step(comps_in))
    /\ bom_df = <<>>
    /\ step_data = <<>>
    /\ matches = <<>>
    /\ result = <<>>
    /\ ParamsIdle /\ RecordIdle /\ ExtractIdle

\* matcher.py:9-14
MatchCall ==
    /\ pc = "m_call"
    /\ bom_df' = _preprocess_bom(bom_in)
    /\ step_data' = _preprocess_step(comps_in)
    /\ matches' = <<>>
    /\ pc' = "m_loop"
    /\ UNCHANGED <<bom_in, comps_in, fuzz, result, pvars, rvars, evars>>

\* matcher.py:16-39
MatchRow ==
    /\ pc = "m_loop"
    /\ Len(matches) < Len(bom_df)
    /\ matches' = Append(matches, MatchOneRow(bom_df[Len(matches) + 1], step_data))
    /\ UNCHANGED <<pc, bom_in, comps_in, fuzz, bom_df, step_data, result,
                   pvars, rvars, evars>>

\* matcher.py:42
PostProcess ==
    /\ pc = "m_loop"
    /\ Len(matches) = Len(bom_df)
    /\ \E order \in SortOrders(matches, DropDuplicates(matches)) :
          result' = _post_process_matches(matches, order)
    /\ pc' = "m_done"
    /\ UNCHANGED <<bom_in, comps_in, fuzz, bom_df, step_data, matches,
                   pvars, rvars, evars>>

MatchNext == MatchCall \/ MatchRow \/ PostProcess

SpecMatch == MatchInit /\ [][MatchNext]_vars

(***************************************************************************)
(* Properties of the matching engine.                                      *)
(***************************************************************************)
\* upper-cased and trimmed, written out for the statements below
UpperTrimmed(s) ==
    StripChars([k \in 1..Len(s) |-> UpperChar(s[k])], {" ", "\n", "\t"})

\* the classification thresholds of spec section 4.4
ThresholdType(score) ==
    CASE score >= 950 -> "Exact Match"
      [] score >= 800 /\ score < 950 -> "Strong Match"
      [] score >= 600 /\ score < 800 -> "Partial Match"
      [] score < 600 -> "Weak/No Match"

\* the score of every component against one preprocessed row
PairScores(bom_row) ==
    [j \in 1..Len(step_data) |-> _calculate_enhanced_score(bom_row, step_data[j])]

\* C1: a BOM row and a component whose upper-cased, trimmed part numbers are
\* non-empty and equal score exactly 1.0 whatever the descriptions are, and
\* the result returned for that row has match type 'Exact Match'.
C1_ExactPartNumber ==
    \A i \in 1..Len(bom_in), j \in 1..Len(comps_in) :
        LET rp == UpperTrimmed(bom_in[i].PartNumber)
            rd == UpperTrimmed(bom_in[i].Description)
            cp == UpperTrimmed(comps_in[j].part_number)
            RowOf(r) == r.BOM_PartNumber = rp /\ r.BOM_Description = rd
        IN (rp # <<>> /\ rp = cp) =>
             /\ pc # "m_call" =>
                  /\ step_data[j].part_number = cp
                  /\ \E k \in 1..Len(bom_df) :
                        /\ bom_df[k].PartNumber = rp
                        /\ bom_df[k].Description = rd
                        /\ _calculate_enhanced_score(bom_df[k], step_data[j]) = 1000
             /\ pc = "m_done" =>
                  /\ \E k \in 1..Len(result) : RowOf(result[k])
                  /\ \A k \in 1..Len(result) :
                        RowOf(result[k]) => result[k].Match_Type = "Exact Match"

\* C1 witness: a returned Exact Match for a row and a component whose raw
\* part numbers differ, normalize to the same text, and whose descriptions
\* are both non-empty and different
C1_Witness ==
    /\ pc = "m_done"
    /\ \E i \in 1..Len(bom_in), j \in 1..Len(comps_in), k \in 1..Len(result) :
          /\ bom_in[i].PartNumber # comps_in[j].part_number
          /\ UpperTrimmed(bom_in[i].PartNumber) = UpperTrimmed(comps_in[j].part_number)
          /\ UpperTrimmed(bom_in[i].PartNumber) # <<>>
          /\ UpperTrimmed(bom_in[i].Description) # <<>>
          /\ UpperTrimmed(comps_in[j].description) # <<>>
          /\ UpperTrimmed(bom_in[i].Description) # UpperTrimmed(comps_in[j].description)
          /\ result[k].BOM_PartNumber = UpperTrimmed(bom_in[i].PartNumber)
          /\ result[k].BOM_Description = UpperTrimmed(bom_in[i].Description)
          /\ result[k].Match_Type = "Exact Match"

\* C2: in every row match_components returns, the score is a number in
\* [0,1] and the match type is fixed by match presence and the thresholds:
\* no matched component gives 'No Match', otherwise >= 0.95 'Exact Match',
\* [0.8,0.95) 'Strong Match', [0.6,0.8) 'Partial Match', < 0.6 'Weak/No Match'.
C2_ScoreRangeAndType ==
    pc = "m_done" =>
        \A k \in 1..Len(result) :
            /\ result[k].Match_Score.kind = "float"
            /\ result[k].Match_Score.val \in 0..1000
            /\ result[k].Match_Type =
                 IF result[k].STEP_PartNumber = NoneValue
                 THEN "No Match"
                 ELSE ThresholdType(result[k].Match_Score.val)

\* The same statement on the rows as the loop builds them (matcher.py:32-39),
\* before _post_process_matches rewrites the score column.
BuiltRowsScoreRangeAndType ==
    \A k \in 1..Len(matches) :
        /\ matches[k].Match_Score.kind = "float"
        /\ matches[k].Match_Score.val \in 0..1000
        /\ matches[k].Match_Type =
             IF matches[k].STEP_PartNumber = NoneValue
             THEN "No Match"
             ELSE ThresholdType(matches[k].Match_Score.val)

\* C3: for every BOM row the loop of match_components selects the component
\* of greatest score over the whole component list, the earliest among those
\* tied at that score; when no component scores above 0.0 the row has no
\* match: matched part number and description absent, score 0.0.
C3_BestMatchSelection ==
    \A k \in 1..Len(matches) :
        LET s == PairScores(bom_df[k])
            top == IF Len(s) = 0 THEN 0 ELSE SetMax(Range(s))
            first == SetMin({j \in 1..Len(s) : s[j] = top})
        IN IF top > 0
           THEN /\ matches[k].STEP_PartNumber = step_data[first].part_number
                /\ matches[k].STEP_Description = step_data[first].description
                /\ matches[k].Match_Score = Float(top)
           ELSE /\ matches[k].STEP_PartNumber = NoneValue
                /\ matches[k].STEP_Description = NoneValue
                /\ matches[k].Match_Score = Float(0)

\* C3 witness: a row built with two components tied at the greatest score,
\* different in their text, and the earlier of the two selected
C3_Witness ==
    \E k \in 1..Len(matches) :
        LET s == PairScores(bom_df[k])
        IN \E a, b \in 1..Len(s) :
              /\ a < b
              /\ s[a] = s[b]
              /\ s[a] > 0
              /\ \A j \in 1..Len(s) : s[j] <= s[a]
              /\ \A j \in 1..(a - 1) : s[j] < s[a]
              /\ step_data[a].description # step_data[b].description
              /\ matches[k].STEP_Description = step_data[a].description
              /\ matches[k].STEP_PartNumber = step_data[a].part_number

\* the rules of spec section 4.4 that apply to a pair, with their values
RuleValues(bom_row, step_comp) ==
    LET pn    == bom_row.PartNumber
        desc  == bom_row.Description
        cpn   == step_comp.part_number
        cdesc == step_comp.description
    IN {fuzz.ratio[a] * 10 : a \in {<<pn, cpn>>} \cap DOMAIN fuzz.ratio}
       \cup (IF pn # <<>> /\ Contains(pn, cdesc) THEN {800} ELSE {})
       \cup {fuzz.partial_ratio[a] * 7 :
                a \in {<<desc, cdesc>>} \cap DOMAIN fuzz.partial_ratio}
       \cup {fuzz.token_set_ratio[a] * 6 :
                a \in {<<desc, cdesc>>} \cap DOMAIN fuzz.token_set_ratio}

ExactPair(bom_row, step_comp) ==
    /\ bom_row.PartNumber # <<>>
    /\ bom_row.PartNumber = step_comp.part_number

\* C4: for a pair whose part numbers are not both non-empty and equal, the
\* score is the greatest value among the rules that apply (fuzzy ratio of the
\* part numbers; 0.8 when the row's non-empty part number is inside the
\* component's description; 0.7 x partial ratio and 0.6 x token-set ratio of
\* the descriptions) and 0.0 when none applies; a row whose part number is
\* inside the description, no other rule scoring higher, scores exactly 0.8
\* and classifies as 'Strong Match'.
C4_MaxOfApplicableRules ==
    pc # "m_call" =>
        \A k \in 1..Len(bom_df), j \in 1..Len(step_data) :
            LET row == bom_df[k]
                comp == step_data[j]
                vals == RuleValues(row, comp)
                score == _calculate_enhanced_score(row, comp)
            IN ~ExactPair(row, comp) =>
                 /\ vals = {} => score = 0
                 /\ vals # {} => score \in vals /\ \A v \in vals : v <= score
                 /\ (/\ row.PartNumber # <<>>
                     /\ Contains(row.PartNumber, comp.description)
                     /\ \A v \in vals : v <= 800)
                    => score = 800 /\ _get_match_type(score) = "Strong Match"

\* C4 witness: a row returned as a 'Strong Match' at 0.8 through the
\* description rule alone, the other three rules applying with lower values
C4_Witness ==
    /\ pc = "m_done"
    /\ \E k \in 1..Len(matches) :
          /\ Len(step_data) = 1
          /\ ~ExactPair(bom_df[k], step_data[1])
          /\ Contains(bom_df[k].PartNumber, step_data[1].description)
          /\ bom_df[k].PartNumber # <<>>
          /\ Cardinality(RuleValues(bom_df[k], step_data[1])) = 4
          /\ matches[k].Match_Score = Float(800)
          /\ matches[k].Match_Type = "Strong Match"
          /\ \E r \in 1..Len(result) :
                result[r].index = k /\ result[r].Match_Type = "Strong Match"


\* C5: the returned sequence holds, for each distinct (BOM part number, BOM
\* description), only the result of its first occurrence in row order, and is
\* ordered by score descending, results of equal score in original row order.
C5_DedupSortedStable ==
    pc = "m_done" =>
        LET Key(i) == <<matches[i].BOM_PartNumber, matches[i].BOM_Description>>
            firsts == {i \in 1..Len(matches) : \A j \in 1..(i - 1) : Key(j) # Key(i)}
            Score(k) == matches[result[k].index].Match_Score.val
        IN /\ Len(result) = Cardinality(firsts)
           /\ {result[k].index : k \in 1..Len(result)} = firsts
           /\ \A k \in 1..Len(result) :
                 /\ result[k].BOM_PartNumber = matches[result[k].index].BOM_PartNumber
                 /\ result[k].BOM_Description = matches[result[k].index].BOM_Description
                 /\ result[k].STEP_PartNumber = matches[result[k].index].STEP_PartNumber
                 /\ result[k].Match_Type = matches[result[k].index].Match_Type
           /\ \A a, b \in 1..Len(result) :
                 a < b => \/ Score(a) > Score(b)
                          \/ Score(a) = Score(b) /\ result[a].index < result[b].index

\* What the code does give: first occurrences only, score non-increasing,
\* the order among equal scores left open.
DedupSortedDescending ==
    pc = "m_done" =>
        LET Key(i) == <<matches[i].BOM_PartNumber, matches[i].BOM_Description>>
            firsts == {i \in 1..Len(matches) : \A j \in 1..(i - 1) : Key(j) # Key(i)}
            Score(k) == matches[result[k].index].Match_Score.val
        IN /\ Len(result) = Cardinality(firsts)
           /\ {result[k].index : k \in 1..Len(result)} = firsts
           /\ \A a, b \in 1..Len(result) : a < b => Score(a) >= Score(b)

\* C6: after post-processing every returned MatchResult still carries its
\* numeric score, a float in [0,1]; the percentage text does not replace it.
C6_NumericScoreKept ==
    pc = "m_done" =>
        \A k \in 1..Len(result) :
            /\ result[k].Match_Score = matches[result[k].index].Match_Score
            /\ result[k].Match_Score.kind = "float"

\* What the code returns in the score column: the rounded percentage text of
\* the numeric score.
ScoreColumnIsPercentText ==
    pc = "m_done" =>
        \A k \in 1..Len(result) :
            LET v == matches[result[k].index].Match_Score.val
            IN /\ result[k].Match_Score.kind = "str"
               /\ 10 * result[k].Match_Score.val - v \in -5..5


(***************************************************************************)
(* _parse_parameters as a process: the scan of step_parser.py:100-137,     *)
(* one character per step.                                                 *)
(***************************************************************************)
MaxParamLen == 4

ParamChars == {"1", "'", ",", "(", ")", "[", "]", " "}

\* 'a,b', 1
ExampleQuoted == <<"'", "a", ",", "b", "'", ",", " ", "1">>
\* (1,2),3
ExampleNested == <<"(", "1", ",", "2", ")", ",", "3">>
\* 'a,b',(1,2),#3
ExampleMixed ==
    <<"'", "a", ",", "b", "'", ",", "(", "1", ",", "2", ")", ",", "#", "3">>

ParamStrings ==
    SeqUpTo(ParamChars, MaxParamLen)
        \cup {ExampleQuoted, ExampleNested, ExampleMixed}

ParamsInit ==
    /\ pc = "p_call"
    /\ param_str \in ParamStrings
    /\ pos = 0
    /\ params = <<>>
    /\ current = <<>>
    /\ depth = 0
    /\ in_quotes = FALSE
    /\ parsed = <<>>
    /\ MatchIdle /\ RecordIdle /\ ExtractIdle

\* step_parser.py:102-110
ParamsCall ==
    /\ pc = "p_call"
    /\ IF PyStrip(param_str) = <<>>
       THEN /\ pc' = "p_done"
            /\ parsed' = <<>>
            /\ UNCHANGED <<params, current, depth, in_quotes>>
       ELSE /\ pc' = "p_scan"
            /\ params' = ScanStart.params
            /\ current' = ScanStart.current
            /\ depth' = ScanStart.depth
            /\ in_quotes' = ScanStart.in_quotes
            /\ UNCHANGED parsed
    /\ UNCHANGED <<param_str, pos, mvars, rvars, evars>>

\* step_parser.py:112-128
ParamsScan ==
    /\ pc = "p_scan"
    /\ pos < Len(param_str)
    /\ LET st == ScanChar([params |-> params, current |-> current,
                           depth |-> depth, in_quotes |-> in_quotes],
                          param_str[pos + 1])
       IN /\ params' = st.params
          /\ current' = st.current
          /\ depth' = st.depth
          /\ in_quotes' = st.in_quotes
    /\ pos' = pos + 1
    /\ UNCHANGED <<pc, param_str, parsed, mvars, rvars, evars>>

\* step_parser.py:130-133
ParamsReturn ==
    /\ pc = "p_scan"
    /\ pos = Len(param_str)
    /\ parsed' = ScanFinish([params |-> params, current |-> current,
                             depth |-> depth, in_quotes |-> in_quotes])
    /\ pc' = "p_done"
    /\ UNCHANGED <<param_str, pos, params, current, depth, in_quotes,
                   mvars, rvars, evars>>

ParamsNext == ParamsCall \/ ParamsScan \/ ParamsReturn

SpecParams == ParamsInit /\ [][ParamsNext]_vars

(***************************************************************************)
(* Properties of the parameter scan.                                       *)
(***************************************************************************)
\* the character at p lies between an opening quote and its closing quote
InsideQuotes(s, p) ==
    Cardinality({i \in 1..(p - 1) : s[i] = "'"}) % 2 = 1

\* bracket depth in front of p: brackets outside quotes, opened minus closed
DepthBefore(s, p) ==
    Cardinality({i \in 1..(p - 1) : s[i] \in {"(", "["} /\ ~InsideQuotes(s, i)})
      - Cardinality({i \in 1..(p - 1) : s[i] \in {")", "]"} /\ ~InsideQuotes(s, i)})

\* the commas of s at depth zero and outside quotes
SplitPoints(s) ==
    {p \in 1..Len(s) : s[p] = "," /\ DepthBefore(s, p) = 0 /\ ~InsideQuotes(s, p)}

\* the stretch of s[1..n] that follows the split point p (p = 0: the start)
Segment(s, n, p) ==
    LET later == {r \in SplitPoints(s) : r > p /\ r <= n}
    IN SubSeq(s, p + 1, IF later = {} THEN n ELSE SetMin(later) - 1)

\* the split points among s[1..n] in increasing order
RECURSIVE Ascending(_)
Ascending(S) ==
    IF S = {} THEN <<>> ELSE <<SetMin(S)>> \o Ascending(S \ {SetMin(S)})

\* the segments closed by a split point within s[1..n], stripped
ClosedSegments(s, n) ==
    LET cuts == <<0>> \o Ascending({r \in SplitPoints(s) : r <= n})
    IN [k \in 1..(Len(cuts) - 1) |-> PyStrip(Segment(s, n, cuts[k]))]

OpenSegment(s, n) ==
    LET before == {r \in SplitPoints(s) : r <= n}
    IN Segment(s, n, IF before = {} THEN 0 ELSE SetMax(before))

\* C8: while scanning, a comma has separated two parameters if and only if
\* it stood at bracket depth zero outside quotes (params holds exactly the
\* stripped segments closed by such commas and current the text since the
\* last of them), the returned list is the cleaned segments, and the two
\* examples of the specification come out as stated.
C8_SplitAtDepthZeroOutsideQuotes ==
    /\ pc = "p_scan" =>
         /\ params = ClosedSegments(param_str, pos)
         /\ current = OpenSegment(param_str, pos)
         /\ in_quotes = InsideQuotes(param_str, pos + 1)
         /\ depth = DepthBefore(param_str, pos + 1)
    /\ (pc = "p_done" /\ PyStrip(param_str) # <<>>) =>
         LET n == Len(param_str)
             closed == ClosedSegments(param_str, n)
             last == PyStrip(OpenSegment(param_str, n))
             all == IF last # <<>> THEN Append(closed, last) ELSE closed
         IN parsed = [k \in 1..Len(all) |-> _clean_param(all[k])]
    /\ (pc = "p_done" /\ param_str = ExampleQuoted) =>
         parsed = <<Value("String", <<"a", ",", "b">>), Value("Integer", <<"1">>)>>
    /\ (pc = "p_done" /\ param_str = ExampleNested) =>
         /\ Len(parsed) = 2
         /\ parsed[1] = Value("Raw", <<"(", "1", ",", "2", ")">>)
         /\ parsed[2] = Value("Integer", <<"3">>)

\* C8 witness: a string with a comma inside quotes, a comma inside
\* parentheses and two top-level commas has been scanned to the end and
\* gave three parameters.
C8_Witness ==
    /\ pc = "p_done"
    /\ param_str = ExampleMixed
    /\ parsed = <<Value("String", <<"a", ",", "b">>),
                  Value("Raw", <<"(", "1", ",", "2", ")">>),
                  Value("Reference", <<"3">>)>>


(***************************************************************************)
(* parse_step_file on the text of one file (step_parser.py:32-62).         *)
(***************************************************************************)
MaxGap == 1
MaxBodyLen == 3

GapChars == {" ", "\n"}
BodyChars == {"A", "b", "(", ")", ",", "1", " ", "'"}

\* #10=PART('X');
ExampleCompact ==
    <<"#", "1", "0", "=", "P", "A", "R", "T", "(", "'", "X", "'", ")", ";">>
\* #1 = A(1,#1 =);
ExampleRepeated ==
    <<"#", "1", " ", "=", " ", "A", "(", "1", ",", "#", "1", " ", "=", ")", ";">>
\* #1 = A(1); #2 = B;
ExampleTwoRecords ==
    <<"#", "1", " ", "=", " ", "A", "(", "1", ")", ";", " ",
      "#", "2", " ", "=", " ", "B", ";">>

\* '#' digits, optional whitespace, '=', optional whitespace, body, ';'
RecordTexts ==
    {<<"#", "7">> \o g1 \o <<"=">> \o g2 \o body \o <<";">> :
        g1 \in SeqUpTo(GapChars, MaxGap), g2 \in SeqUpTo(GapChars, MaxGap),
        body \in SeqUpTo(BodyChars, MaxBodyLen)}

RecordInit ==
    /\ pc = "r_call"
    /\ content \in RecordTexts \cup {ExampleCompact, ExampleRepeated, ExampleTwoRecords}
    /\ entities = <<>>
    /\ MatchIdle /\ ParamsIdle /\ ExtractIdle

\* step_parser.py:40-59, first pattern
ParseStandard ==
    /\ pc = "r_call"
    /\ entities' = PatternEntities("standard", content)
    /\ pc' = IF entities' # <<>> THEN "r_done" ELSE "r_alt"
    /\ UNCHANGED <<content, mvars, pvars, evars>>

\* step_parser.py:40-59, second pattern, tried when the first gave nothing
ParseAlternative ==
    /\ pc = "r_alt"
    /\ entities' = PatternEntities("alternative", content)
    /\ pc' = "r_done"
    /\ UNCHANGED <<content, mvars, pvars, evars>>

RecordNext == ParseStandard \/ ParseAlternative

SpecRecord == RecordInit /\ [][RecordNext]_vars

(***************************************************************************)
(* Properties of the record patterns.                                      *)
(***************************************************************************)
\* C9: once a record text has been parsed, the primary pattern and the
\* alternative pattern, each applied on its own to that text, give the same
\* number of Entities, and the Entities at the same place have the same type
\* and the same number of parameters.
C9_PatternsAgree ==
    pc = "r_done" =>
        LET a == PatternEntities("standard", content)
            b == PatternEntities("alternative", content)
        IN /\ Len(a) = Len(b)
           /\ \A k \in 1..Len(a) :
                /\ a[k].type = b[k].type
                /\ Len(a[k].parameters) = Len(b[k].parameters)

\* The two patterns do agree on the texts that have exactly one space in
\* front of '=' and no '#' in the body.
PatternsAgreeOnSpacedPrefix ==
    (/\ pc = "r_done"
     /\ \E g2 \in SeqUpTo(GapChars, MaxGap), body \in SeqUpTo(BodyChars, MaxBodyLen) :
          content = <<"#", "7", " ", "=">> \o g2 \o body \o <<";">>) =>
        LET a == PatternEntities("standard", content)
            b == PatternEntities("alternative", content)
        IN /\ Len(a) = Len(b)
           /\ \A k \in 1..Len(a) :
                /\ a[k].type = b[k].type
                /\ a[k].parameters = b[k].parameters


(***************************************************************************)
(* extract_step_components on a parsed entity list                         *)
(* (step_parser.py:168-186), one entity per step.                          *)
(***************************************************************************)
MaxSize == 4

\* parameter texts as they stand in a record: 'BRK-1', '1234',
\* 'steel part', 'MOUNT PLATE', 'AB1 BRACKET', bolt, #5, 3, 'REF:A',
\* 'REF:steel part'
ParamTokens ==
    {<<"'", "B", "R", "K", "-", "1", "'">>,
     <<"'", "1", "2", "3", "4", "'">>,
     <<"'", "s", "t", "e", "e", "l", " ", "p", "a", "r", "t", "'">>,
     <<"'", "M", "O", "U", "N", "T", " ", "P", "L", "A", "T", "E", "'">>,
     <<"'", "A", "B", "1", " ", "B", "R", "A", "C", "K", "E", "T", "'">>,
     <<"b", "o", "l", "t">>,
     <<"#", "5">>,
     <<"3">>,
     <<"'", "R", "E", "F", ":", "A", "'">>,
     <<"'", "R", "E", "F", ":", "s", "t", "e", "e", "l", " ", "p", "a", "r", "t", "'">>}

EntityIds == <<"1", "2", "3", "4", "5", "6", "7", "8", "9">>

RECURSIVE JoinComma(_)
JoinComma(toks) ==
    IF toks = <<>> THEN <<>>
    ELSE IF Len(toks) = 1 THEN toks[1]
    ELSE toks[1] \o <<",">> \o JoinComma(Tail(toks))

\* The entity _parse_entity makes of the record  #k = part(<tokens>);  the
\* tokens hold no comma, no bracket and no blank at either end, so the
\* parameter scan hands each of them to _clean_param as it stands.
EntityOf(k, toks) ==
    [id |-> <<EntityIds[k]>>,
     type |-> PyUpper(<<"p", "a", "r", "t">>),
     parameters |-> [j \in 1..Len(toks) |-> _clean_param(toks[j])],
     raw |-> <<"#", EntityIds[k], " ", "=", " ", "p", "a", "r", "t", "(">>
               \o JoinComma(toks) \o <<")", ";">>]

\* the lists of token lists whose entities and tokens together number at
\* most budget
RECURSIVE TokenListsWithin(_)
TokenListsWithin(budget) ==
    IF budget <= 0 THEN {<<>>}
    ELSE {<<>>} \cup
         UNION {{<<toks>> \o rest : rest \in TokenListsWithin(budget - 1 - Len(toks))} :
                    toks \in SeqUpTo(ParamTokens, budget - 1)}

DecimalDigits == <<"0", "1", "2", "3", "4", "5", "6", "7", "8", "9">>

\* the digits of the record number k
RECURSIVE IdText(_)
IdText(k) ==
    IF k < 10 THEN <<DecimalDigits[k + 1]>>
    ELSE IdText(k \div 10) \o <<DecimalDigits[(k % 10) + 1]>>

\* the entity of the record  #k = part(<token>);
EntityNumbered(k, tok) ==
    [id |-> IdText(k),
     type |-> PyUpper(<<"p", "a", "r", "t">>),
     parameters |-> <<_clean_param(tok)>>,
     raw |-> <<"#">> \o IdText(k) \o <<" ", "=", " ", "p", "a", "r", "t", "(">>
               \o tok \o <<")", ";">>]

\* an unquoted token one character longer than the fallback pass keeps
LongToken == [i \in 1..(TruncateLen + 1) |-> "x"]

\* Entity lists one longer than the fallback pass reads, none of which the
\* primary pass takes anything from: every record holds bolt; every record
\* holds the long token; only the last record holds bolt, the others 3.
ManyEntityLists ==
    {[k \in 1..(FallbackLimit + 1) |-> EntityNumbered(k, <<"b", "o", "l", "t">>)],
     [k \in 1..(FallbackLimit + 1) |-> EntityNumbered(k, LongToken)],
     [k \in 1..(FallbackLimit + 1) |->
        EntityNumbered(k, IF k > FallbackLimit THEN <<"b", "o", "l", "t">>
                          ELSE <<"3">>)]}

ExtractInit ==
    /\ pc = "e_primary"
    /\ MatchIdle /\ ParamsIdle /\ RecordIdle
    /\ \/ \E tl \in TokenListsWithin(MaxSize) :
            step_entities = [k \in 1..Len(tl) |-> EntityOf(k, tl[k])]
       \/ step_entities \in ManyEntityLists
    /\ ent_i = 0
    /\ components = <<>>

\* step_parser.py:173-176
ExtractEntity ==
    /\ pc = "e_primary"
    /\ ent_i < Len(step_entities)
    /\ LET comp_data == _extract_from_entity(step_entities[ent_i + 1])
       IN components' = IF comp_data # NoneComponent
                        THEN Append(components, comp_data) ELSE components
    /\ ent_i' = ent_i + 1
    /\ UNCHANGED <<pc, step_entities, mvars, pvars, rvars>>

\* step_parser.py:179
ExtractCheck ==
    /\ pc = "e_primary"
    /\ ent_i = Len(step_entities)
    /\ IF components = <<>>
       THEN pc' = "e_basic" /\ ent_i' = 0
       ELSE pc' = "e_done" /\ ent_i' = ent_i
    /\ UNCHANGED <<step_entities, components, mvars, pvars, rvars>>

\* step_parser.py:180-183
ExtractBasic ==
    /\ pc = "e_basic"
    /\ ent_i < Len(step_entities) /\ ent_i < FallbackLimit
    /\ LET comp_data == _create_basic_component(step_entities[ent_i + 1])
       IN components' = IF comp_data # NoneComponent
                        THEN Append(components, comp_data) ELSE components
    /\ ent_i' = ent_i + 1
    /\ UNCHANGED <<pc, step_entities, mvars, pvars, rvars>>

\* step_parser.py:185-186
ExtractReturn ==
    /\ pc = "e_basic"
    /\ ent_i = Len(step_entities) \/ ent_i = FallbackLimit
    /\ pc' = "e_done"
    /\ UNCHANGED <<step_entities, ent_i, components, mvars, pvars, rvars>>

ExtractNext == ExtractEntity \/ ExtractCheck \/ ExtractBasic \/ ExtractReturn

SpecExtract == ExtractInit /\ [][ExtractNext]_vars


(***************************************************************************)
(* Properties of the primary extraction pass.                              *)
(***************************************************************************)
\* the positions of the scanned parameters of an entity
ScannedAt(entity) ==
    {i \in 1..Len(entity.parameters) : Scanned(entity.parameters[i])}

\* the text at the last position of P, empty when P is empty
LastText(entity, P) ==
    IF P = {} THEN <<>> ELSE PyText(entity.parameters[SetMax(P)])

\* the Components the entities 1..n contribute when part_number comes from
\* the positions PN(e) and description from the positions D(e)
Contributed(n, PN(_), D(_)) ==
    LET made == [k \in 1..n |->
                   [id |-> step_entities[k].id,
                    type |-> step_entities[k].type,
                    part_number |-> LastText(step_entities[k], PN(step_entities[k])),
                    description |-> LastText(step_entities[k], D(step_entities[k]))]]
    IN SelectSeq(made, LAMBDA c : c.part_number # <<>> \/ c.description # <<>>)

PartNumberAt(e) ==
    {i \in ScannedAt(e) : _looks_like_part_number(PyText(e.parameters[i]))}
DescriptionAt(e) ==
    {i \in ScannedAt(e) : _looks_like_description(PyText(e.parameters[i]))}
DescriptionOnlyAt(e) == DescriptionAt(e) \ PartNumberAt(e)

\* C10 as stated: during the primary pass the Components so far are those
\* of the entities passed whose part_number, the last scanned parameter that
\* satisfies the part-number heuristic, or description, the last scanned
\* parameter that satisfies the description heuristic, is non-empty.
C10_IndependentHeuristics ==
    pc = "e_primary" =>
        components = Contributed(ent_i, PartNumberAt, DescriptionAt)

\* C10 as amended: the description heuristic is tried only on a scanned
\* parameter that fails the part-number heuristic, so description is the
\* last scanned parameter that satisfies the description heuristic and not
\* the part-number heuristic; part_number is the last scanned parameter that
\* satisfies the part-number heuristic, and an Entity contributes a
\* Component if and only if one of the two is non-empty.
C10_PartNumberTakesPrecedence ==
    pc = "e_primary" =>
        components = Contributed(ent_i, PartNumberAt, DescriptionOnlyAt)

\* C10 witness: the first entity, passed by the primary pass, holds a
\* parameter that only reads as a description and after it one that reads as
\* both; its Component has the later as part_number and keeps the earlier as
\* description.
C10_Witness ==
    /\ pc = "e_primary"
    /\ ent_i >= 1
    /\ Len(step_entities[1].parameters) = 2
    /\ DescriptionOnlyAt(step_entities[1]) = {1}
    /\ PartNumberAt(step_entities[1]) = {2}
    /\ DescriptionAt(step_entities[1]) = {1, 2}
    /\ Len(components) >= 1
    /\ components[1].part_number = PyText(step_entities[1].parameters[2])
    /\ components[1].description = PyText(step_entities[1].parameters[1])


(***************************************************************************)
(* Empty inputs.                                                           *)
(***************************************************************************)
\* a result without a matched component, with score 0.0 and type No Match
Unmatched(r) ==
    /\ r.STEP_PartNumber = NoneValue
    /\ r.STEP_Description = NoneValue
    /\ r.Match_Score = Float(0)
    /\ r.Match_Type = "No Match"

\* C7: an empty entity list makes extract_step_components return an empty
\* component list, and an empty component list makes match_components
\* return, for every normalized BOM row, a result for that row with no
\* matched component, score 0.0 and match type No Match.
C7_EmptyInputsTolerated ==
    /\ (pc = "e_done" /\ step_entities = <<>>) => components = <<>>
    /\ (pc = "m_done" /\ comps_in = <<>>) =>
         \A i \in 1..Len(bom_df) :
            \E k \in 1..Len(result) :
                /\ result[k].BOM_PartNumber = bom_df[i].PartNumber
                /\ result[k].BOM_Description = bom_df[i].Description
                /\ Unmatched(result[k])

\* The rows as the loop of match_components builds them, one per normalized
\* BOM row, are unmatched when the component list is empty.
EmptyComponentsBuiltRows ==
    (pc \in {"m_loop", "m_done"} /\ comps_in = <<>>) =>
        \A i \in 1..Len(matches) :
            /\ matches[i].BOM_PartNumber = bom_df[i].PartNumber
            /\ matches[i].BOM_Description = bom_df[i].Description
            /\ Unmatched(matches[i])

\* What is returned for an empty component list: every normalized BOM row
\* has its result, unmatched in every column but the score, which is the
\* text "0%".
EmptyComponentsReturned ==
    (pc = "m_done" /\ comps_in = <<>>) =>
        /\ Len(matches) = Len(bom_df)
        /\ \A i \in 1..Len(bom_df) :
            \E k \in 1..Len(result) :
                /\ result[k].BOM_PartNumber = bom_df[i].PartNumber
                /\ result[k].BOM_Description = bom_df[i].Description
                /\ result[k].STEP_PartNumber = NoneValue
                /\ result[k].STEP_Description = NoneValue
                /\ result[k].Match_Score = PercentText(0)
                /\ result[k].Match_Type = "No Match"

\* An empty entity list gives an empty component list.
EmptyEntitiesGiveNoComponents ==
    step_entities = <<>> => components = <<>>


(***************************************************************************)
(* Properties of the fallback pass.                                        *)
(***************************************************************************)
\* the primary pass takes nothing from any entity of the list
PrimaryEmpty ==
    Contributed(Len(step_entities), PartNumberAt, DescriptionOnlyAt) = <<>>

\* the positions of the String and Raw parameters longer than three characters
LongTextAt(e) ==
    {i \in 1..Len(e.parameters) :
        /\ e.parameters[i].tag \in {"String", "Raw"}
        /\ Len(e.parameters[i].text) > 3}

\* the same, less the parameters whose text begins with REF:
LongTextNotRefAt(e) ==
    {i \in LongTextAt(e) :
        ~StartsWith(e.parameters[i].text, <<"R", "E", "F", ":">>)}

\* the first fifty characters of t
FirstFifty(t) == SubSeq(t, 1, IF Len(t) <= 50 THEN Len(t) ELSE 50)

\* the fallback Components of the entities 1..n when part_number is taken
\* at the first of the positions At(e)
FallbackOf(n, At(_)) ==
    LET made == [k \in 1..n |->
                   LET e == step_entities[k]
                   IN [id |-> e.id,
                       type |-> e.type,
                       part_number |-> IF At(e) = {} THEN <<>>
                                       ELSE FirstFifty(e.parameters[SetMin(At(e))].text),
                       description |-> e.type \o <<" ", "c", "o", "m", "p", "o",
                                                    "n", "e", "n", "t">>,
                       footprint |-> <<>>,
                       context |-> <<>>]]
    IN SelectSeq(made, LAMBDA c : At(step_entities[CHOOSE k \in 1..n :
                                        step_entities[k].id = c.id]) # {})

\* C11: the fallback pass runs only when the primary pass gave no
\* Component; it reads at most the first 50 entities and so gives at most 50
\* Components, and the Component of an entity has as part_number the
\* entity's first String or Raw parameter longer than three characters cut
\* to 50 characters, as description the entity type followed by
\* " component", and empty footprint and context.
C11_FallbackPass ==
    /\ pc = "e_basic" => PrimaryEmpty
    /\ (pc \in {"e_basic", "e_done"} /\ PrimaryEmpty) =>
         /\ ent_i <= 50
         /\ Len(components) <= 50
         /\ components = FallbackOf(ent_i, LongTextAt)

\* What holds of the fallback pass: the same, with part_number taken from
\* the first String or Raw parameter longer than three characters whose
\* text does not begin with REF:.
FallbackPassSkipsRefText ==
    /\ pc = "e_basic" => PrimaryEmpty
    /\ (pc \in {"e_basic", "e_done"} /\ PrimaryEmpty) =>
         /\ ent_i <= 50
         /\ Len(components) <= 50
         /\ components = FallbackOf(ent_i, LongTextNotRefAt)
    /\ (pc = "e_done" /\ PrimaryEmpty) =>
         ent_i = IF Len(step_entities) <= 50 THEN Len(step_entities) ELSE 50

\* The cap is met: a list of more than 50 entities, each with a usable
\* parameter, has been read by the fallback pass and gave 50 Components, a
\* part_number of 50 characters cut from a longer parameter among them.
FallbackCapReached ==
    /\ pc = "e_done"
    /\ Len(step_entities) > 50
    /\ Len(components) = 50
    /\ Len(components[1].part_number) = 50
    /\ Len(step_entities[1].parameters[1].text) > 50


(***************************************************************************)
(* Properties of the parameters the extractor reads.                       *)
(***************************************************************************)
\* the positions of the String and Raw parameters of an entity
TextAt(e) ==
    {i \in 1..Len(e.parameters) : e.parameters[i].tag \in {"String", "Raw"}}

TextPartNumberAt(e) ==
    {i \in TextAt(e) : _looks_like_part_number(e.parameters[i].text)}
TextDescriptionOnlyAt(e) ==
    {i \in TextAt(e) : /\ _looks_like_description(e.parameters[i].text)
                       /\ ~_looks_like_part_number(e.parameters[i].text)}

\* no Component has the text of a Reference parameter of its entity as
\* part_number or description
ReferenceNeverTaken ==
    \A n \in 1..Len(components) :
        \A k \in 1..Len(step_entities) :
            step_entities[k].id = components[n].id =>
                \A i \in 1..Len(step_entities[k].parameters) :
                    step_entities[k].parameters[i].tag = "Reference" =>
                        /\ components[n].part_number
                             # PyText(step_entities[k].parameters[i])
                        /\ components[n].description
                             # PyText(step_entities[k].parameters[i])

\* C12: the extractor passes over the Reference parameters and no others:
\* the primary pass tests every String and Raw parameter whatever its text,
\* the fallback pass takes the first String or Raw parameter longer than
\* three characters whatever its text, and no Reference is taken as
\* part_number or description.
C12_OnlyReferencesSkipped ==
    /\ pc = "e_primary" =>
         components = Contributed(ent_i, TextPartNumberAt, TextDescriptionOnlyAt)
    /\ pc = "e_basic" =>
         components = FallbackOf(ent_i, LongTextAt)
    /\ ReferenceNeverTaken


(***************************************************************************)
(* Properties of the fields of a Component.                                *)
(***************************************************************************)
\* C13: every Component extract_step_components returns, from the primary
\* pass or from the fallback pass, has the six fields id, type, part_number,
\* description, footprint and context.
C13_SixFieldsOnEveryComponent ==
    pc = "e_done" =>
        \A n \in 1..Len(components) :
            {"id", "type", "part_number", "description", "footprint", "context"}
                \subseteq DOMAIN components[n]

\* What is returned: the Components of the primary pass have the four
\* fields id, type, part_number and description and no others, those of the
\* fallback pass the six.
FieldsByPass ==
    pc = "e_done" =>
        \A n \in 1..Len(components) :
            DOMAIN components[n] =
                IF PrimaryEmpty
                THEN {"id", "type", "part_number", "description", "footprint",
                      "context"}
                ELSE {"id", "type", "part_number", "description"}

=============================================================================
